---- MODULE Spec2Model ----
(***************************************************************************)
(* A model of the hurricane / development-indicator pipeline:              *)
(*   ETL/extract.py     extract_development_data                           *)
(*   ETL/transform.py   transform_development_data, transform_disaster_data*)
(*   analysis/visual_timeseries.py   generate_report                       *)
(*   main.py            the driver                                         *)
(* Data frames are modelled by their column labels, their index labels and *)
(* their cells; a cell is a rational <<n, d>> with d > 0, or NaN (d = 0).   *)
(***************************************************************************)
EXTENDS Integers, Sequences, FiniteSets, TLC

VARIABLES
    \* transform_development_data
    development_data,              \* the argument (a frame, or None)
    df_min_year, df_max_year,      \* the arguments
    development_data_transformed,  \* the local of that name
    dev_pc,                        \* position in the function
    dev_exc,                       \* the exception it raised, or "none"
    \* transform_disaster_data
    disaster_data,                 \* the argument: a list of events
    dis_min_year, dis_max_year,    \* its df_min_year, df_max_year
    min_total_affected,            \* the argument
    disaster_data_transformed,     \* the local of that name
    dis_pc,                        \* position in the function
    \* generate_report
    country_code, dev_data, dis_data,   \* the arguments
    year_cols,                     \* the local of that name
    n_storms,                      \* the local of that name: the palette's size
    storm_colors,                  \* the cycle: how many colours were taken from it
    rep_i,                         \* the loop counter i
    figs,                          \* pyplot's open figures, the active one last
    pages,                         \* the figures saved to the PDF, in order
    rep_log,                       \* the WARNING and ERROR lines printed, in order
    rep_threw,                     \* the rows whose drawing raised
    rep_pc,                        \* position in the function
    \* extract_development_data
    indicators,                    \* len(indicators); the ids are 0 .. indicators - 1
    ext_i,                         \* the loop variable i
    batch_dfs, failed_batches,     \* the locals of those names: lists of id sets
    ext_log,                       \* the batch numbers of the batch error lines
    ext_result,                    \* what the function returned
    ext_pc,                        \* position in the function
    \* main.py
    main_dev,                      \* the driver's development_data
    stdout,                        \* the lines the driver printed, in order
    stages_run,                    \* the stage functions called, in order
    raised_by,                     \* the stage whose exception reached the driver
    uncaught,                      \* whether an exception left the driver
    main_pc                        \* position in the driver

devVars == <<development_data, df_min_year, df_max_year,
             development_data_transformed, dev_pc, dev_exc>>
disVars == <<disaster_data, dis_min_year, dis_max_year, min_total_affected,
             disaster_data_transformed, dis_pc>>
repVars == <<country_code, dev_data, dis_data, year_cols, n_storms, storm_colors,
             rep_i, figs, pages, rep_log, rep_threw, rep_pc>>
extVars == <<indicators, ext_i, batch_dfs, failed_batches, ext_log, ext_result, ext_pc>>
mainVars == <<main_dev, stdout, stages_run, raised_by, uncaught, main_pc>>
vars == <<devVars, disVars, repVars, extVars, mainVars>>
NotDev == <<disVars, repVars, extVars, mainVars>>
NotDis == <<devVars, repVars, extVars, mainVars>>
NotRep == <<devVars, disVars, extVars, mainVars>>
NotMain == <<devVars, disVars, repVars>>

----------------------------------------------------------------------------
(* Bounds of the model *)

\* year columns of a generated input table: 1 .. MaxYears of them
MaxYears == 3
\* rows of a generated input table: 1 .. MaxRows
MaxRows == 1
\* label of the first year column of a generated input table
BaseYear == 2018
\* events of a generated disaster table: 0 .. MaxEvents
MaxEvents == 2
\* rows of a generated table handed to generate_report: 0 .. MaxReportRows
MaxReportRows == 2
\* events of a generated table handed to generate_report: 0 .. MaxStorms
MaxStorms == 2
\* indicators the provider lists: 0 .. MaxIndicators
MaxIndicators == 250

----------------------------------------------------------------------------
(* Cells *)

NaN == <<0, 0>>
Num(v) == <<v, 1>>
IsNaN(c) == c[2] = 0

RECURSIVE GCD(_, _)
GCD(a, b) == IF b = 0 THEN a ELSE GCD(b, a % b)

Abs(x) == IF x < 0 THEN -x ELSE x

\* a rational in lowest terms
Norm(n, d) ==
    LET g == GCD(Abs(n), d) IN <<n \div g, d \div g>>

\* numpy.interp between two neighbouring sample points (xp, fp) and (xq, fq):
\* slope * (x - xp) + fp
NpInterp(x, xp, fp, xq, fq) ==
    Norm(fp[1] * fq[2] * (xq - xp) + (fq[1] * fp[2] - fp[1] * fq[2]) * (x - xp),
         fp[2] * fq[2] * (xq - xp))

\* pandas `cell == 0`: False on NaN
EqZero(c) == ~IsNaN(c) /\ c[1] = 0

----------------------------------------------------------------------------
(* Frames *)

\* str(year)
Str(year) == ToString(year)

\* range(a, b): a, a+1, .., b-1 as a list
Range(a, b) == [k \in 1 .. (IF b > a THEN b - a ELSE 0) |-> a + k - 1]

SeqToSet(s) == {s[k] : k \in DOMAIN s}

\* s[from:] of a list (from is 0-based)
Tail2(s, from) == [k \in 1 .. (IF Len(s) > from THEN Len(s) - from ELSE 0) |-> s[k + from]]

RECURSIVE SelectRows(_, _)
\* frame[mask]: the rows whose mask entry is true, in order, index labels kept
SelectRows(rows, mask) ==
    IF rows = <<>> THEN <<>>
    ELSE (IF Head(mask) THEN <<Head(rows)>> ELSE <<>>)
         \o SelectRows(Tail(rows), Tail(mask))

\* what extract_development_data hands back: None, or the table of some indicators
NoTable == [none |-> TRUE, indicator_codes |-> {}]
Table(codes) == [none |-> FALSE, indicator_codes |-> codes]

NoneFrame == [none |-> TRUE, cols |-> <<>>, rows |-> <<>>]
Frame(cols, rows) == [none |-> FALSE, cols |-> cols, rows |-> rows]

IdCols == <<"Country Code", "Indicator Name">>

\* frame.iloc[:, 2:] : the labels of all columns after the first two
YearPart(frame) == Tail2(frame.cols, 2)

\* the cells of one row under frame.iloc[:, 2:], in column order
RowCells(frame, row) == [k \in DOMAIN YearPart(frame) |-> row.val[YearPart(frame)[k]]]

\* frame.iloc[:, 2:].shape[1]
NumYearColumns(frame) == Len(YearPart(frame))

----------------------------------------------------------------------------
(* transform_development_data, statement by statement *)

\* ['Country Code', 'Indicator Name'] + [str(year) for year in range(lo, hi + 1)]
WantedCols(lo, hi) == IdCols \o [k \in DOMAIN Range(lo, hi + 1) |-> Str(Range(lo, hi + 1)[k])]

\* .loc[:, labels] raises KeyError when a label is not a column of the frame
LocRaises(frame, labels) == \E k \in DOMAIN labels : labels[k] \notin SeqToSet(frame.cols)

\* .loc[:, labels]: the listed columns, in the listed order
Loc(frame, labels) ==
    Frame(labels,
          [r \in DOMAIN frame.rows |->
              [idx |-> frame.rows[r].idx,
               val |-> [l \in SeqToSet(Tail2(labels, 2)) |-> frame.rows[r].val[l]]]])

\* .isna().sum(axis=1) of one row
NaNCount(cells) == Cardinality({k \in DOMAIN cells : IsNaN(cells[k])})

\* (mutation) the threshold taken strictly
DensityKeepStrict(cells, nc_half) == NaNCount(cells) < nc_half

\* the mask  NaN_count <= nc_half  of one row
DensityKeep(cells, nc_half) == NaNCount(cells) <= nc_half

\* (row == 0).all() of one row
AllZero(cells) == \A k \in DOMAIN cells : EqZero(cells[k])

\* (mutation) .any(axis=1) in place of .all(axis=1)
ZeroKeepAny(cells) == ~(\E k \in DOMAIN cells : EqZero(cells[k]))

\* the mask  ~(... == 0).all(axis=1)  of one row
ZeroKeep(cells) == ~AllZero(cells)

Valid(cells) == {k \in DOMAIN cells : ~IsNaN(cells[k])}
Max(S) == CHOOSE x \in S : \A y \in S : y <= x
Min(S) == CHOOSE x \in S : \A y \in S : x <= y

\* .interpolate(axis=1, method='linear'): positions are equally spaced, the
\* values come from numpy.interp (which clamps outside the known points), and
\* with the default limit_direction='forward' the leading NaNs are put back.
Interpolate(cells) ==
    LET valid == Valid(cells) IN
    IF valid = {} THEN cells
    ELSE [k \in DOMAIN cells |->
            IF k \in valid THEN cells[k]
            ELSE IF k < Min(valid) THEN NaN
            ELSE IF k > Max(valid) THEN cells[Max(valid)]
            ELSE LET p == Max({v \in valid : v < k})
                     q == Min({v \in valid : v > k})
                 IN NpInterp(k, p, cells[p], q, cells[q])]

\* .bfill(axis=1): a NaN takes the next known value to its right
Bfill(cells) ==
    [k \in DOMAIN cells |->
        LET right == {v \in Valid(cells) : v > k} IN
        IF IsNaN(cells[k]) /\ right # {} THEN cells[Min(right)] ELSE cells[k]]

\* .ffill(axis=1): a NaN takes the last known value to its left
Ffill(cells) ==
    [k \in DOMAIN cells |->
        LET left == {v \in Valid(cells) : v < k} IN
        IF IsNaN(cells[k]) /\ left # {} THEN cells[Max(left)] ELSE cells[k]]

\* (mutation) the backward fill left out
ResolveGapsNoBfill(cells) == Ffill(Interpolate(cells))

\* (mutation) the interpolation left out: fills only
ResolveGapsFillsOnly(cells) == Ffill(Bfill(cells))

\* .interpolate(axis=1, method='linear').bfill(axis=1).ffill(axis=1)
ResolveGaps(cells) == Ffill(Bfill(Interpolate(cells)))

\* frame.iloc[:, 2:] = frame.iloc[:, 2:].interpolate(..).bfill(..).ffill(..)
ResolveFrame(frame) ==
    Frame(frame.cols,
          [r \in DOMAIN frame.rows |->
              [idx |-> frame.rows[r].idx,
               val |-> LET new == ResolveGaps(RowCells(frame, frame.rows[r]))
                       IN [l \in SeqToSet(YearPart(frame)) |->
                              new[CHOOSE k \in DOMAIN YearPart(frame) : YearPart(frame)[k] = l]]]])

\* the column NaN_count <= nc_half
DensityMask(frame, nc_half) ==
    [r \in DOMAIN frame.rows |-> DensityKeep(RowCells(frame, frame.rows[r]), nc_half)]

\* the column ~(frame.iloc[:, 2:] == 0).all(axis=1)
ZeroMask(frame) ==
    [r \in DOMAIN frame.rows |-> ZeroKeep(RowCells(frame, frame.rows[r]))]

\* frame[mask]
FilterRows(frame, mask) == Frame(frame.cols, SelectRows(frame.rows, mask))

\* frame.iloc[:, 2:].isna().any().any()
AnyNaN(frame) ==
    \E r \in DOMAIN frame.rows : NaNCount(RowCells(frame, frame.rows[r])) > 0

\* lines 46-51: copy and column selection; None has no .copy(), a missing label
\* is a KeyError; both reach the handler of lines 101-103, which re-raises
DevSelect ==
    /\ dev_pc = "select"
    /\ IF development_data.none
       THEN /\ dev_pc' = "raised"
            /\ dev_exc' = "AttributeError"
            /\ UNCHANGED development_data_transformed
       ELSE IF LocRaises(development_data, WantedCols(df_min_year, df_max_year))
       THEN /\ dev_pc' = "raised"
            /\ dev_exc' = "KeyError"
            /\ UNCHANGED development_data_transformed
       ELSE /\ development_data_transformed' =
                   Loc(development_data, WantedCols(df_min_year, df_max_year))
            /\ dev_pc' = "density"
            /\ UNCHANGED dev_exc
    /\ UNCHANGED <<development_data, df_min_year, df_max_year, NotDev>>

\* lines 58-65: drop the rows with more than half of the years missing
DevDensity ==
    /\ dev_pc = "density"
    /\ LET num_year_columns == NumYearColumns(development_data_transformed)
           nc_half == num_year_columns \div 2
       IN development_data_transformed' =
             FilterRows(development_data_transformed,
                        DensityMask(development_data_transformed, nc_half))
    /\ dev_pc' = "zeros"
    /\ UNCHANGED <<development_data, df_min_year, df_max_year, dev_exc, NotDev>>

\* lines 67-70: drop the rows whose year columns are all 0
DevZeros ==
    /\ dev_pc = "zeros"
    /\ development_data_transformed' =
          FilterRows(development_data_transformed, ZeroMask(development_data_transformed))
    /\ dev_pc' = "gaps"
    /\ UNCHANGED <<development_data, df_min_year, df_max_year, dev_exc, NotDev>>

\* lines 79-88: interpolate / bfill / ffill when any NaN is left
DevGaps ==
    /\ dev_pc = "gaps"
    /\ development_data_transformed' =
          IF AnyNaN(development_data_transformed)
          THEN ResolveFrame(development_data_transformed)
          ELSE development_data_transformed
    /\ dev_pc' = "save"
    /\ UNCHANGED <<development_data, df_min_year, df_max_year, dev_exc, NotDev>>

\* lines 90-103: the optional export, which may fail and is re-raised, and the return
DevReturn ==
    /\ dev_pc = "save"
    /\ \E export_fails \in BOOLEAN :
          /\ dev_pc' = IF export_fails THEN "raised" ELSE "returned"
          /\ dev_exc' = IF export_fails THEN "OSError" ELSE "none"
    /\ UNCHANGED <<development_data, df_min_year, df_max_year,
                   development_data_transformed, NotDev>>

NextDev == DevSelect \/ DevDensity \/ DevZeros \/ DevGaps \/ DevReturn

----------------------------------------------------------------------------
(* Inputs of transform_development_data *)

\* known values of a generated cell
Values == {0, 10}
Cells == {NaN} \cup {Num(v) : v \in Values}

\* the table extract_development_data returns: four identity columns, then the
\* year columns in chronological order (extract.py lines 97-104)
ExtractCols(years) ==
    <<"Country Name", "Country Code", "Indicator Name", "Indicator Code">> \o
    [k \in DOMAIN years |-> Str(years[k])]

InputFrame(years, rowcells) ==
    Frame(ExtractCols(years),
          [r \in DOMAIN rowcells |->
              [idx |-> r - 1,
               val |-> [l \in {Str(years[k]) : k \in DOMAIN years} |->
                          rowcells[r][CHOOSE k \in DOMAIN years : Str(years[k]) = l]]]])

\* the example of the specification: years 2018..2023, [NaN, NaN, 10, NaN, 20, NaN]
ExampleYears == Range(2018, 2024)
ExampleRow == <<NaN, NaN, Num(10), NaN, Num(20), NaN>>
ExampleFrame == InputFrame(ExampleYears, <<ExampleRow>>)

\* a row over the same years with one leading, one internal and one trailing gap
KeptRow == <<NaN, Num(10), NaN, Num(20), Num(20), NaN>>
ExampleCells == Cells \cup {Num(20)}

\* tables over the example's years: the example row alone, or the example row
\* or KeptRow beside any other row
IsExampleFrame(frame) ==
    \/ frame = ExampleFrame
    \/ \E row \in [DOMAIN ExampleYears -> ExampleCells], with \in {ExampleRow, KeptRow} :
          \/ frame = InputFrame(ExampleYears, <<with, row>>)
          \/ frame = InputFrame(ExampleYears, <<row, with>>)

\* generated tables: 1 .. MaxYears year columns from BaseYear on, 1 .. MaxRows rows
IsGeneratedFrame(frame) ==
    \E n \in 1 .. MaxYears, m \in 1 .. MaxRows :
       \E rowcells \in [1 .. m -> [1 .. n -> Cells]] :
          frame = InputFrame(Range(BaseYear, BaseYear + n), rowcells)

DevIdle ==
    /\ development_data = NoneFrame
    /\ df_min_year = 0
    /\ df_max_year = 0
    /\ development_data_transformed = NoneFrame
    /\ dev_pc = "idle"
    /\ dev_exc = "none"

DisIdle ==
    /\ disaster_data = <<>>
    /\ dis_min_year = 0
    /\ dis_max_year = 0
    /\ min_total_affected = 0
    /\ disaster_data_transformed = <<>>
    /\ dis_pc = "idle"

RepIdle ==
    /\ country_code = ""
    /\ dev_data = NoneFrame
    /\ dis_data = <<>>
    /\ year_cols = <<>>
    /\ n_storms = 0
    /\ storm_colors = 0
    /\ rep_i = 0
    /\ figs = <<>>
    /\ pages = <<>>
    /\ rep_log = <<>>
    /\ rep_threw = {}
    /\ rep_pc = "idle"

MainIdle ==
    /\ indicators = 0
    /\ ext_i = 0
    /\ batch_dfs = <<>>
    /\ failed_batches = <<>>
    /\ ext_log = <<>>
    /\ ext_result = NoTable
    /\ ext_pc = "idle"
    /\ main_dev = NoTable
    /\ stdout = <<>>
    /\ stages_run = <<>>
    /\ raised_by = "none"
    /\ uncaught = FALSE
    /\ main_pc = "idle"

InitDev ==
    /\ \/ /\ IsGeneratedFrame(development_data)
          /\ df_min_year \in BaseYear - 1 .. BaseYear + MaxYears
          /\ df_max_year \in BaseYear - 1 .. BaseYear + MaxYears
       \/ /\ IsExampleFrame(development_data)
          /\ df_min_year = ExampleYears[1]
          /\ df_max_year = ExampleYears[Len(ExampleYears)]
       \/ /\ development_data = NoneFrame
          /\ df_min_year = BaseYear
          /\ df_max_year = BaseYear
    /\ development_data_transformed = NoneFrame
    /\ dev_pc = "select"
    /\ dev_exc = "none"
    /\ DisIdle
    /\ RepIdle
    /\ MainIdle

SpecDev == InitDev /\ [][NextDev]_vars

----------------------------------------------------------------------------
(* transform_disaster_data, statement by statement.  The disaster table is  *)
(* the list of its rows; id is the row's index label.                      *)

\* defaults of the signature
DefaultMinYear == 2007
DefaultMaxYear == 2023
DefaultMinTotalAffected == 500000
\* the wind speed of a major hurricane, in the scale 'Kph'
MajorMagnitude == 178

\* pandas `cell >= v`: False on NaN
Ge(c, v) == ~IsNaN(c) /\ c[1] >= v * c[2]

\* the mask of lines 136-137
YearKeep(e, lo, hi) == e.year >= lo /\ e.year <= hi

\* the mask of lines 142-143
MajorKeep(e) == e.scale = "Kph" /\ Ge(e.magnitude, MajorMagnitude)

\* (mutation) the threshold taken strictly
AffectedKeepStrict(e, least) == ~IsNaN(e.affected) /\ e.affected[1] > least * e.affected[2]

\* the mask of line 147
AffectedKeep(e, least) == Ge(e.affected, least)

YearMask(events, lo, hi) == [k \in DOMAIN events |-> YearKeep(events[k], lo, hi)]
MajorMask(events) == [k \in DOMAIN events |-> MajorKeep(events[k])]
AffectedMask(events, least) == [k \in DOMAIN events |-> AffectedKeep(events[k], least)]

DisYears ==
    /\ dis_pc = "years"
    /\ disaster_data_transformed' =
          SelectRows(disaster_data, YearMask(disaster_data, dis_min_year, dis_max_year))
    /\ dis_pc' = "major"
    /\ UNCHANGED <<disaster_data, dis_min_year, dis_max_year, min_total_affected, NotDis>>

DisMajor ==
    /\ dis_pc = "major"
    /\ disaster_data_transformed' =
          SelectRows(disaster_data_transformed, MajorMask(disaster_data_transformed))
    /\ dis_pc' = "affected"
    /\ UNCHANGED <<disaster_data, dis_min_year, dis_max_year, min_total_affected, NotDis>>

DisAffected ==
    /\ dis_pc = "affected"
    /\ disaster_data_transformed' =
          SelectRows(disaster_data_transformed,
                     AffectedMask(disaster_data_transformed, min_total_affected))
    /\ dis_pc' = "save"
    /\ UNCHANGED <<disaster_data, dis_min_year, dis_max_year, min_total_affected, NotDis>>

\* lines 151-164: the optional export, which may fail and is re-raised, and the return
DisReturn ==
    /\ dis_pc = "save"
    /\ \E export_fails \in BOOLEAN :
          dis_pc' = IF export_fails THEN "raised" ELSE "returned"
    /\ UNCHANGED <<disaster_data, dis_min_year, dis_max_year, min_total_affected,
                   disaster_data_transformed, NotDis>>

NextDis == DisYears \/ DisMajor \/ DisAffected \/ DisReturn

\* generated events: years at and beside both ends of the range, both scales,
\* magnitudes and totals at and one below the thresholds, or missing
EventShapes ==
    [year : {DefaultMinYear - 1, DefaultMinYear, DefaultMaxYear, DefaultMaxYear + 1},
     scale : {"Kph", "Richter"},
     magnitude : {Num(MajorMagnitude - 1), Num(MajorMagnitude), NaN},
     affected : {Num(DefaultMinTotalAffected - 1), Num(DefaultMinTotalAffected), NaN}]

IsDisasterTable(events) ==
    \E n \in 0 .. MaxEvents :
       \E shapes \in [1 .. n -> EventShapes] :
          events = [k \in 1 .. n |->
                      [id |-> k - 1, year |-> shapes[k].year, scale |-> shapes[k].scale,
                       magnitude |-> shapes[k].magnitude, affected |-> shapes[k].affected]]

InitDis ==
    /\ IsDisasterTable(disaster_data)
    /\ dis_min_year = DefaultMinYear
    /\ dis_max_year = DefaultMaxYear
    /\ min_total_affected = DefaultMinTotalAffected
    /\ disaster_data_transformed = <<>>
    /\ dis_pc = "years"
    /\ DevIdle
    /\ RepIdle
    /\ MainIdle

SpecDis == InitDis /\ [][NextDis]_vars

----------------------------------------------------------------------------
(* generate_report.  A figure is the row it was opened for, whether the     *)
(* series was plotted, and the vertical markers drawn on it; a page is the  *)
(* figure that was active when pdf.savefig() was called.                    *)

\* str.isdigit(), for the labels a table can have
DigitStrings == {Str(y) : y \in 0 .. 9999}
IsDigit(label) == label \in DigitStrings

\* [col for col in dev_data.columns if col.isdigit()]
YearCols(frame) == SelectRows(frame.cols, [k \in DOMAIN frame.cols |-> IsDigit(frame.cols[k])])

\* len(dis_data['Event Name'].unique())
NStorms(events) == Cardinality({events[k].name : k \in DOMAIN events})

\* row[1][year_cols].values
RowValues(row, cols) == [k \in DOMAIN cols |-> row.val[cols[k]]]

\* pd.isna(values).all()
AllMissing(values) == \A k \in DOMAIN values : IsNaN(values[k])

\* (mutation) the test  str(year) in year_cols  left out
MarkedAll(events, cols) == events

\* the events that pass  str(year) in year_cols,  in table order
Marked(events, cols) ==
    SelectRows(events, [k \in DOMAIN events |-> Str(events[k].year) \in SeqToSet(cols)])

\* line 83: the label's suffix
LabelSuffix(code, ofda) ==
    IF code \in {"PRI", "USA"} THEN ""
    ELSE IF ofda = "Yes" THEN " (US Response)" ELSE " (No US Response)"

\* lines 79-90 for the first `count` marked events: each takes the next colour
\* of the cycle (taken colours so far: `taken`; palette size: `palette`)
Markers(events, cols, code, taken, palette, count) ==
    [k \in 1 .. count |->
        [x |-> Str(Marked(events, cols)[k].year),
         color |-> (taken + k - 1) % palette,
         label |-> Marked(events, cols)[k].name
                      \o LabelSuffix(code, Marked(events, cols)[k].ofda)]]

Figure(row, plotted, lines) == [row |-> row.idx, plotted |-> plotted, lines |-> lines]

Last(s) == s[Len(s)]
Front(s) == SubSeq(s, 1, Len(s) - 1)

\* (mutation) `break` in place of `continue` in the handler of lines 105-107
AfterFailureBreak(i, total) == total + 1

\* the loop counter after the handler of lines 105-107: `continue`
AfterFailure(i, total) == i + 1

\* lines 33-55: the locals; min() of an empty list raises, and the handler of
\* lines 111-113 re-raises
RepStart ==
    /\ rep_pc = "start"
    /\ year_cols' = YearCols(dev_data)
    /\ IF YearCols(dev_data) = <<>>
       THEN /\ rep_pc' = "raised"
            /\ UNCHANGED <<n_storms, rep_i>>
       ELSE /\ n_storms' = NStorms(dis_data)
            /\ rep_i' = 1
            /\ rep_pc' = "loop"
    /\ UNCHANGED <<country_code, dev_data, dis_data, storm_colors, figs, pages,
                   rep_log, rep_threw, NotRep>>

\* lines 57-66: a row with no value at all is reported and skipped
RepSkipRow ==
    /\ rep_pc = "loop"
    /\ rep_i <= Len(dev_data.rows)
    /\ AllMissing(RowValues(dev_data.rows[rep_i], year_cols))
    /\ rep_log' = Append(rep_log, <<"WARNING", dev_data.rows[rep_i].idx>>)
    /\ rep_i' = rep_i + 1
    /\ UNCHANGED <<country_code, dev_data, dis_data, year_cols, n_storms, storm_colors,
                   figs, pages, rep_threw, rep_pc, NotRep>>

\* lines 68-103: the page of row i, drawn and saved without an exception
RepDrawRow ==
    /\ rep_pc = "loop"
    /\ rep_i <= Len(dev_data.rows)
    /\ ~AllMissing(RowValues(dev_data.rows[rep_i], year_cols))
    /\ LET marked == Len(Marked(dis_data, year_cols))
           opened == Append(figs,                                  \* plt.figure() .. plt.tight_layout()
                        Figure(dev_data.rows[rep_i], TRUE,
                               Markers(dis_data, year_cols, country_code,
                                       storm_colors, n_storms, marked)))
       IN /\ pages' = Append(pages, Last(opened))                  \* pdf.savefig()
          /\ figs' = Front(opened)                                 \* plt.close()
          /\ storm_colors' = storm_colors + marked
    /\ rep_i' = rep_i + 1
    /\ UNCHANGED <<country_code, dev_data, dis_data, year_cols, n_storms,
                   rep_log, rep_threw, rep_pc, NotRep>>

\* lines 68-107: drawing the page of row i raises: in plt.figure(), in
\* plt.plot(), in the axvline of the j-th marker, or from the title to
\* pdf.savefig(); the handler prints the error and continues
RepFailRow ==
    /\ rep_pc = "loop"
    /\ rep_i <= Len(dev_data.rows)
    /\ ~AllMissing(RowValues(dev_data.rows[rep_i], year_cols))
    /\ LET marked == Len(Marked(dis_data, year_cols)) IN
       \/ /\ UNCHANGED <<figs, storm_colors>>                      \* plt.figure() raises
       \/ /\ figs' = Append(figs, Figure(dev_data.rows[rep_i], FALSE, <<>>))
          /\ UNCHANGED storm_colors                                \* plt.plot() raises
       \/ \E j \in 1 .. marked :                                   \* the j-th axvline raises
             /\ figs' = Append(figs,
                           Figure(dev_data.rows[rep_i], TRUE,
                                  Markers(dis_data, year_cols, country_code,
                                          storm_colors, n_storms, j - 1)))
             /\ storm_colors' = storm_colors + j
       \/ /\ figs' = Append(figs,                                  \* a later call raises
                        Figure(dev_data.rows[rep_i], TRUE,
                               Markers(dis_data, year_cols, country_code,
                                       storm_colors, n_storms, marked)))
          /\ storm_colors' = storm_colors + marked
    /\ rep_log' = Append(rep_log, <<"ERROR", dev_data.rows[rep_i].idx>>)
    /\ rep_threw' = rep_threw \cup {dev_data.rows[rep_i].idx}
    /\ rep_i' = AfterFailure(rep_i, Len(dev_data.rows))
    /\ UNCHANGED <<country_code, dev_data, dis_data, year_cols, n_storms,
                   pages, rep_pc, NotRep>>

\* line 109: the loop is over, the PDF is closed
RepClose ==
    /\ rep_pc = "loop"
    /\ rep_i > Len(dev_data.rows)
    /\ rep_pc' = "returned"
    /\ UNCHANGED <<country_code, dev_data, dis_data, year_cols, n_storms, storm_colors,
                   rep_i, figs, pages, rep_log, rep_threw, NotRep>>

NextRep == RepStart \/ RepSkipRow \/ RepDrawRow \/ RepFailRow \/ RepClose

\* the two year columns of a table handed to generate_report
ReportYears == Range(BaseYear, BaseYear + 2)

\* a transformed table: the two identity columns, then the year columns
ReportFrame(years, rowcells) ==
    Frame(IdCols \o [k \in DOMAIN years |-> Str(years[k])],
          [r \in DOMAIN rowcells |->
              [idx |-> r - 1,
               val |-> [l \in {Str(years[k]) : k \in DOMAIN years} |->
                          rowcells[r][CHOOSE k \in DOMAIN years : Str(years[k]) = l]]]])

\* generated rows: nothing known, or the last year only
ReportRowShapes == {<<NaN, NaN>>, <<NaN, Num(10)>>}

\* generated events: in the first year column or after the last, two names
StormShapes ==
    [year : {BaseYear, BaseYear + 2}, name : {"Maria", "Irma"}, ofda : {"Yes", "No"}]

\* a disaster table with a storm before the first year column and one in it
EarlyStorms == <<[year |-> BaseYear - 1, name |-> "Irma", ofda |-> "No"],
                 [year |-> BaseYear, name |-> "Maria", ofda |-> "Yes"]>>

\* the five-indicator table of the specification's example, with one storm in
\* its years and one outside them
FiveRows == [r \in 1 .. 5 |-> <<Num(10), Num(10)>>]
TwoStorms == <<[year |-> BaseYear + 1, name |-> "Maria", ofda |-> "No"],
               [year |-> BaseYear + 2, name |-> "Irma", ofda |-> "Yes"]>>

InitRep ==
    /\ \/ /\ \E n \in 0 .. MaxReportRows : \E rowcells \in [1 .. n -> ReportRowShapes] :
                dev_data = ReportFrame(ReportYears, rowcells)
          /\ \/ \E n \in 0 .. MaxStorms : dis_data \in [1 .. n -> StormShapes]
             \/ dis_data = EarlyStorms
          /\ country_code \in {"PRI", "PHL"}
       \/ /\ dev_data = ReportFrame(ReportYears, FiveRows)
          /\ dis_data = TwoStorms
          /\ country_code = "PRI"
       \/ /\ dev_data = ReportFrame(<<>>, <<>>)
          /\ dis_data = <<>>
          /\ country_code = "PRI"
    /\ year_cols = <<>>
    /\ n_storms = 0
    /\ storm_colors = 0
    /\ rep_i = 0
    /\ figs = <<>>
    /\ pages = <<>>
    /\ rep_log = <<>>
    /\ rep_threw = {}
    /\ rep_pc = "start"
    /\ DevIdle
    /\ DisIdle
    /\ MainIdle

SpecRep == InitRep /\ [][NextRep]_vars

----------------------------------------------------------------------------
(* extract_development_data, run as the driver's first stage.  A batch is   *)
(* the set of the indicator ids it asks for; a batch's data frame has one   *)
(* column per id.                                                           *)

\* line 35
batch_size == 100

\* [ind['id'] for ind in indicators[i:i + batch_size]]
Batch(i, count) == {id \in i .. i + batch_size - 1 : id < count}

\* i // batch_size + 1
BatchNumber(i) == i \div batch_size + 1

RECURSIVE Concat(_)
\* pd.concat(batch_dfs, axis=1): the columns of all the frames
Concat(dfs) == IF dfs = <<>> THEN {} ELSE Head(dfs) \cup Concat(Tail(dfs))

\* lines 33-50: the set-up; the provider's listing calls may raise, and the
\* handler of lines 118-120 re-raises
ExtSetup ==
    /\ main_pc = "fetch"
    /\ ext_pc = "start"
    /\ \E listing_fails \in BOOLEAN :
          ext_pc' = IF listing_fails THEN "raised" ELSE "loop"
    /\ ext_i' = 0
    /\ UNCHANGED <<indicators, batch_dfs, failed_batches, ext_log, ext_result,
                   mainVars, NotMain>>

\* lines 53-64: the request of one batch answers with data
ExtBatchData ==
    /\ main_pc = "fetch"
    /\ ext_pc = "loop"
    /\ ext_i < indicators
    /\ batch_dfs' = Append(batch_dfs, Batch(ext_i, indicators))
    /\ ext_i' = ext_i + batch_size
    /\ UNCHANGED <<indicators, failed_batches, ext_log, ext_result, ext_pc,
                   mainVars, NotMain>>

\* lines 53-64: the request of one batch answers with an empty frame
ExtBatchEmpty ==
    /\ main_pc = "fetch"
    /\ ext_pc = "loop"
    /\ ext_i < indicators
    /\ ext_i' = ext_i + batch_size
    /\ UNCHANGED <<indicators, batch_dfs, failed_batches, ext_log, ext_result, ext_pc,
                   mainVars, NotMain>>

\* lines 53-67: the request of one batch raises
ExtBatchRaises ==
    /\ main_pc = "fetch"
    /\ ext_pc = "loop"
    /\ ext_i < indicators
    /\ failed_batches' = Append(failed_batches, Batch(ext_i, indicators))
    /\ ext_log' = Append(ext_log, BatchNumber(ext_i))
    /\ ext_i' = ext_i + batch_size
    /\ UNCHANGED <<indicators, batch_dfs, ext_result, ext_pc, mainVars, NotMain>>

\* lines 69-71: nothing was fetched
ExtNoData ==
    /\ main_pc = "fetch"
    /\ ext_pc = "loop"
    /\ ext_i >= indicators
    /\ batch_dfs = <<>>
    /\ ext_result' = NoTable
    /\ ext_pc' = "returned"
    /\ UNCHANGED <<indicators, ext_i, batch_dfs, failed_batches, ext_log,
                   mainVars, NotMain>>

\* lines 73-120: the batches are combined and reshaped; the export may fail
\* and is re-raised
ExtCombine ==
    /\ main_pc = "fetch"
    /\ ext_pc = "loop"
    /\ ext_i >= indicators
    /\ batch_dfs # <<>>
    /\ \E export_fails \in BOOLEAN :
          IF export_fails
          THEN ext_pc' = "raised" /\ UNCHANGED ext_result
          ELSE ext_pc' = "returned" /\ ext_result' = Table(Concat(batch_dfs))
    /\ UNCHANGED <<indicators, ext_i, batch_dfs, failed_batches, ext_log,
                   mainVars, NotMain>>

----------------------------------------------------------------------------
(* main.py.  The other four stages are taken by what the driver sees of    *)
(* them: a stage returns or raises.                                        *)

Stages == <<"extract_development_data", "extract_disaster_data",
            "transform_development_data", "transform_disaster_data", "generate_report">>

StageLine(stage) ==
    CASE stage = "extract_development_data" -> "[INFO] Extracting development data:"
      [] stage = "extract_disaster_data" -> "[INFO] Extracting disaster data:"
      [] stage = "transform_development_data" -> "[INFO] Transforming development data:"
      [] stage = "transform_disaster_data" -> "[INFO] Transforming disaster data:"
      [] stage = "generate_report" -> "[INFO] Generating time series report:"

SuccessLine == "[SUCCESS] Pipeline test completed successfully!"
FailureLine == "[ERROR] Pipeline test failed."

\* (mutation) the two transforms called in the other order
PcAfterSwapped(pc) ==
    CASE pc = "fetch" -> "load"
      [] pc = "load" -> "transform_dis"
      [] pc = "transform_dis" -> "transform_dev"
      [] pc = "transform_dev" -> "report"
      [] pc = "report" -> "success"

\* the statement after a stage that returned
PcAfter(pc) ==
    CASE pc = "fetch" -> "load"
      [] pc = "load" -> "transform_dev"
      [] pc = "transform_dev" -> "transform_dis"
      [] pc = "transform_dis" -> "report"
      [] pc = "report" -> "success"

\* lines 35-36: the call of extract_development_data
MainCallFetch ==
    /\ main_pc = "start"
    /\ stdout' = Append(stdout, StageLine(Stages[1]))
    /\ stages_run' = Append(stages_run, Stages[1])
    /\ ext_pc' = "start"
    /\ main_pc' = "fetch"
    /\ UNCHANGED <<indicators, ext_i, batch_dfs, failed_batches, ext_log, ext_result,
                   main_dev, raised_by, uncaught, NotMain>>

\* line 36: extract_development_data is back, with a value or an exception
MainFetched ==
    /\ main_pc = "fetch"
    /\ ext_pc \in {"returned", "raised"}
    /\ IF ext_pc = "raised"
       THEN /\ raised_by' = Stages[1]
            /\ main_pc' = "except"
            /\ UNCHANGED main_dev
       ELSE /\ main_dev' = ext_result
            /\ main_pc' = PcAfter("fetch")
            /\ UNCHANGED raised_by
    /\ UNCHANGED <<extVars, stdout, stages_run, uncaught, NotMain>>

\* lines 38-39: extract_disaster_data returns, or raises (no source file, a
\* failed export)
MainLoad ==
    /\ main_pc = "load"
    /\ stdout' = Append(stdout, StageLine(Stages[2]))
    /\ stages_run' = Append(stages_run, Stages[2])
    /\ \E raises \in BOOLEAN :
          IF raises
          THEN raised_by' = Stages[2] /\ main_pc' = "except"
          ELSE main_pc' = PcAfter("load") /\ UNCHANGED raised_by
    /\ UNCHANGED <<extVars, main_dev, uncaught, NotMain>>

\* lines 41-44: transform_development_data returns or raises; given None it
\* raises (DevSelect)
MainTransformDev ==
    /\ main_pc = "transform_dev"
    /\ stdout' = Append(stdout, StageLine(Stages[3]))
    /\ stages_run' = Append(stages_run, Stages[3])
    /\ \E raises \in BOOLEAN :
          /\ main_dev.none => raises
          /\ IF raises
             THEN raised_by' = Stages[3] /\ main_pc' = "except"
             ELSE main_pc' = PcAfter("transform_dev") /\ UNCHANGED raised_by
    /\ UNCHANGED <<extVars, main_dev, uncaught, NotMain>>

\* lines 46-49: transform_disaster_data returns or raises
MainTransformDis ==
    /\ main_pc = "transform_dis"
    /\ stdout' = Append(stdout, StageLine(Stages[4]))
    /\ stages_run' = Append(stages_run, Stages[4])
    /\ \E raises \in BOOLEAN :
          IF raises
          THEN raised_by' = Stages[4] /\ main_pc' = "except"
          ELSE main_pc' = PcAfter("transform_dis") /\ UNCHANGED raised_by
    /\ UNCHANGED <<extVars, main_dev, uncaught, NotMain>>

\* lines 51-56: generate_report returns or raises
MainReport ==
    /\ main_pc = "report"
    /\ stdout' = Append(stdout, StageLine(Stages[5]))
    /\ stages_run' = Append(stages_run, Stages[5])
    /\ \E raises \in BOOLEAN :
          IF raises
          THEN raised_by' = Stages[5] /\ main_pc' = "except"
          ELSE main_pc' = PcAfter("report") /\ UNCHANGED raised_by
    /\ UNCHANGED <<extVars, main_dev, uncaught, NotMain>>

\* line 58
MainSuccess ==
    /\ main_pc = "success"
    /\ stdout' = Append(stdout, SuccessLine)
    /\ main_pc' = "done"
    /\ UNCHANGED <<extVars, main_dev, stages_run, raised_by, uncaught, NotMain>>

\* lines 60-61: the handler prints the failure line; it has no `raise`, so the
\* script ends normally
MainExcept ==
    /\ main_pc = "except"
    /\ stdout' = Append(stdout, FailureLine)
    /\ uncaught' = FALSE
    /\ main_pc' = "done"
    /\ UNCHANGED <<extVars, main_dev, stages_run, raised_by, NotMain>>

Next ==
    \/ MainCallFetch \/ ExtSetup \/ ExtBatchData \/ ExtBatchEmpty \/ ExtBatchRaises
    \/ ExtNoData \/ ExtCombine \/ MainFetched \/ MainLoad \/ MainTransformDev
    \/ MainTransformDis \/ MainReport \/ MainSuccess \/ MainExcept

Init ==
    /\ indicators \in 0 .. MaxIndicators
    /\ ext_i = 0
    /\ batch_dfs = <<>>
    /\ failed_batches = <<>>
    /\ ext_log = <<>>
    /\ ext_result = NoTable
    /\ ext_pc = "idle"
    /\ main_dev = NoTable
    /\ stdout = <<>>
    /\ stages_run = <<>>
    /\ raised_by = "none"
    /\ uncaught = FALSE
    /\ main_pc = "start"
    /\ DevIdle
    /\ DisIdle
    /\ RepIdle

Spec == Init /\ [][Next]_vars

----------------------------------------------------------------------------
(* Properties of transform_development_data *)

\* the years of the requested range, and their number
SelectedYears == df_min_year .. df_max_year
N == IF df_max_year >= df_min_year THEN df_max_year - df_min_year + 1 ELSE 0

\* the index labels of the rows a frame holds
IdxOf(frame) == {frame.rows[k].idx : k \in DOMAIN frame.rows}

\* input row r read at year y
InCell(r, y) == development_data.rows[r].val[Str(y)]
KnownYears(r) == {y \in SelectedYears : ~IsNaN(InCell(r, y))}
Missing(r) == Cardinality(SelectedYears \ KnownYears(r))

\* the input row an output row comes from (index labels are 0, 1, ..)
Origin(outrow) == outrow.idx + 1

\* C1: every row of the returned table has a value in every year column of the
\* requested range.
C1_NoMissingInOutput ==
    dev_pc = "returned" =>
        \A k \in DOMAIN development_data_transformed.rows :
            \A y \in SelectedYears :
                ~IsNaN(development_data_transformed.rows[k].val[Str(y)])

\* a returned row whose input had a leading, an internal and a trailing gap
C1_Witness ==
    /\ dev_pc = "returned"
    /\ \E k \in DOMAIN development_data_transformed.rows :
          LET r == Origin(development_data_transformed.rows[k]) IN
          /\ KnownYears(r) # {}
          /\ df_min_year \notin KnownYears(r)
          /\ df_max_year \notin KnownYears(r)
          /\ \E y \in SelectedYears \ KnownYears(r) :
                /\ \E p \in KnownYears(r) : p < y
                /\ \E q \in KnownYears(r) : q > y

\* C2: right after the density filter, a row with exactly N \div 2 missing year
\* values is in the table, and from then on a row with N \div 2 + 1 or more
\* missing year values is not, for every N >= 1.
C2_DensityFilter ==
    (N >= 1 /\ dev_pc \in {"zeros", "gaps", "save", "returned"}) =>
        \A r \in DOMAIN development_data.rows :
            /\ (dev_pc = "zeros" /\ Missing(r) = N \div 2)
                  => (r - 1) \in IdxOf(development_data_transformed)
            /\ Missing(r) >= N \div 2 + 1
                  => (r - 1) \notin IdxOf(development_data_transformed)

\* after the density filter of a two-row table: one row at the threshold kept,
\* one row just above it dropped
C2_Witness ==
    /\ dev_pc = "zeros"
    /\ N >= 2
    /\ \E r \in DOMAIN development_data.rows :
          Missing(r) = N \div 2 /\ (r - 1) \in IdxOf(development_data_transformed)
    /\ \E r \in DOMAIN development_data.rows :
          Missing(r) = N \div 2 + 1 /\ (r - 1) \notin IdxOf(development_data_transformed)

\* out lies on the line through (p, a) and (q, b) at y, in rationals
OnLine(out, y, p, a, q, b) ==
    out[1] * a[2] * b[2] * (q - p) =
        out[2] * (a[1] * b[2] * (q - y) + b[1] * a[2] * (y - p))

\* the gap-resolution rule, for one output row
GapRule(outrow) ==
    LET r == Origin(outrow)
        known == KnownYears(r)
    IN \A y \in SelectedYears :
          LET before == {p \in known : p < y}
              after == {q \in known : q > y}
              out == outrow.val[Str(y)]
          IN /\ y \in known => out = InCell(r, y)
             /\ (y \notin known /\ before # {} /\ after # {}) =>
                   /\ ~IsNaN(out)
                   /\ OnLine(out, y, Max(before), InCell(r, Max(before)),
                                     Min(after), InCell(r, Min(after)))
             /\ (y \notin known /\ before = {} /\ after # {}) =>
                   out = InCell(r, Min(after))
             /\ (y \notin known /\ before # {} /\ after = {}) =>
                   out = InCell(r, Max(before))

\* C3 (as amended): in every row of the result, a missing value between two
\* known values is their linear interpolation over the years, a missing leading
\* value is the first known value, a missing trailing value is the last known
\* value, and known values are unchanged.
C3_GapResolution ==
    dev_pc \in {"save", "returned"} =>
        \A k \in DOMAIN development_data_transformed.rows :
            GapRule(development_data_transformed.rows[k])

\* the example row beside [NaN, 10, NaN, 20, 20, NaN]: only the second row is
\* returned, as [10, 10, 15, 20, 20, 20]
C3_Witness ==
    /\ dev_pc = "returned"
    /\ development_data = InputFrame(ExampleYears, <<ExampleRow, KeptRow>>)
    /\ Len(development_data_transformed.rows) = 1
    /\ development_data_transformed.rows[1].idx = 1
    /\ RowCells(development_data_transformed, development_data_transformed.rows[1])
          = <<Num(10), Num(10), Num(15), Num(20), Num(20), Num(20)>>

\* C3 as stated: the rule above, and the table holding the row
\* [NaN, NaN, 10, NaN, 20, NaN] for 2018..2023 comes back holding
\* [10, 10, 10, 15, 20, 20].
C3_AsStated ==
    /\ C3_GapResolution
    /\ (dev_pc = "returned" /\ development_data = ExampleFrame
          /\ df_min_year = 2018 /\ df_max_year = 2023) =>
         /\ Len(development_data_transformed.rows) = 1
         /\ RowCells(development_data_transformed, development_data_transformed.rows[1])
               = <<Num(10), Num(10), Num(10), Num(15), Num(20), Num(20)>>

\* C4: from the all-zero filter on, a row whose value is exactly 0 in every year
\* column is not in the table; the filter keeps every row it is given that has
\* a known non-zero value.
C4_AllZeroFilter ==
    (N >= 1 /\ dev_pc \in {"gaps", "save", "returned"}) =>
        \A r \in DOMAIN development_data.rows :
            /\ (\A y \in SelectedYears : InCell(r, y) = Num(0))
                  => (r - 1) \notin IdxOf(development_data_transformed)
            /\ (/\ dev_pc = "gaps"
                /\ Missing(r) <= N \div 2
                /\ \E y \in KnownYears(r) : InCell(r, y)[1] # 0)
                  => (r - 1) \in IdxOf(development_data_transformed)

\* a two-row table after the all-zero filter: the all-zero row is gone, a row
\* holding a zero and a non-zero value is still there
C4_Witness ==
    /\ dev_pc = "gaps"
    /\ N >= 2
    /\ \E r \in DOMAIN development_data.rows :
          /\ \A y \in SelectedYears : InCell(r, y) = Num(0)
          /\ (r - 1) \notin IdxOf(development_data_transformed)
    /\ \E r \in DOMAIN development_data.rows :
          /\ \E y \in KnownYears(r) : InCell(r, y)[1] # 0
          /\ (r - 1) \in IdxOf(development_data_transformed)

\* the years the input table has a column for
InputYears ==
    {y \in BaseYear - 1 .. BaseYear + MaxYears + Len(ExampleYears) :
        Str(y) \in SeqToSet(development_data.cols)}

RECURSIVE Ascending(_)
\* the members of a set of numbers, smallest first
Ascending(S) == IF S = {} THEN <<>> ELSE <<Min(S)>> \o Ascending(S \ {Min(S)})

\* C7 as stated: with min year > max year, or with no year column of the input
\* in the range, the call does not return a table.
C7_InvalidRangeFails ==
    (/\ ~development_data.none
     /\ \/ df_min_year > df_max_year
        \/ InputYears \cap SelectedYears = {})
        => dev_pc # "returned"

\* C8 as stated: with a year column of the input in the range, the column
\* selection succeeds and the returned columns are the two identity columns and
\* the input's year columns of the range, ascending.
C8_ColumnSelection ==
    (~development_data.none /\ InputYears \cap SelectedYears # {}) =>
        /\ dev_exc # "KeyError"
        /\ dev_pc = "returned" =>
              development_data_transformed.cols =
                 <<"Country Code", "Indicator Name">> \o
                 [k \in DOMAIN Ascending(InputYears \cap SelectedYears) |->
                     Str(Ascending(InputYears \cap SelectedYears)[k])]

\* C13 as stated: every row of the returned table has a year value other than
\* 0, also a row that came from known zeros and missing values only.
C13_NoAllZeroRowReturned ==
    dev_pc = "returned" =>
        \A k \in DOMAIN development_data_transformed.rows :
            \E l \in DOMAIN development_data_transformed.rows[k].val :
                development_data_transformed.rows[k].val[l] # Num(0)

----------------------------------------------------------------------------
(* Properties of transform_disaster_data *)

\* the four predicates of the claim, on one input event
Qualifies(e) ==
    /\ dis_min_year <= e.year
    /\ e.year <= dis_max_year
    /\ e.scale = "Kph"
    /\ ~IsNaN(e.magnitude) /\ e.magnitude[1] >= 178 * e.magnitude[2]
    /\ ~IsNaN(e.affected) /\ e.affected[1] >= min_total_affected * e.affected[2]

\* C5: the returned events are exactly the input events that satisfy the four
\* predicates, each as it was given, in input order.
C5_DisasterFilter ==
    dis_pc = "returned" =>
        /\ \A k \in DOMAIN disaster_data_transformed :
              /\ disaster_data_transformed[k].id + 1 \in DOMAIN disaster_data
              /\ disaster_data_transformed[k] =
                    disaster_data[disaster_data_transformed[k].id + 1]
        /\ \A j, k \in DOMAIN disaster_data_transformed :
              j < k => disaster_data_transformed[j].id < disaster_data_transformed[k].id
        /\ {disaster_data_transformed[k].id + 1 : k \in DOMAIN disaster_data_transformed}
              = {i \in DOMAIN disaster_data : Qualifies(disaster_data[i])}

\* two major hurricanes of the range, the first one below the threshold of
\* total affected and the second exactly at it: only the second is returned
C5_Witness ==
    /\ dis_pc = "returned"
    /\ Len(disaster_data) = 2
    /\ \A i \in {1, 2} :
          /\ disaster_data[i].scale = "Kph"
          /\ disaster_data[i].magnitude = Num(178)
          /\ disaster_data[i].year \in {dis_min_year, dis_max_year}
    /\ disaster_data[1].affected = Num(min_total_affected - 1)
    /\ disaster_data[2].affected = Num(min_total_affected)
    /\ disaster_data_transformed = <<disaster_data[2]>>

----------------------------------------------------------------------------
(* Properties of generate_report *)

\* the index labels of the rows of dev_data with no value in any year column
MissingRows ==
    {dev_data.rows[r].idx : r \in {q \in DOMAIN dev_data.rows :
        \A l \in DOMAIN dev_data.rows[q].val : dev_data.rows[q].val[l] = NaN}}

\* the index labels of rows 1 .. n of dev_data
RowsUpTo(n) == {dev_data.rows[r].idx : r \in {q \in DOMAIN dev_data.rows : q <= n}}

\* the position of a row of dev_data, by its index label
PosOf(idx) == CHOOSE r \in DOMAIN dev_data.rows : dev_data.rows[r].idx = idx

Logged(tag) == {rep_log[k][2] : k \in {q \in DOMAIN rep_log : rep_log[q][1] = tag}}

\* C6: a row whose drawing raises is logged as an error and skipped, and the
\* loop goes on to the last row: when the report is done, its pages are the
\* rows that are neither all-missing nor failing, once each, in row order,
\* each page showing the plotted series of its own row; the all-missing rows
\* have a warning; a failing row never makes generate_report raise.
C6_FailureIsolation ==
    /\ rep_pc = "raised" => rep_threw = {}
    /\ rep_pc = "loop" => rep_threw \subseteq RowsUpTo(rep_i - 1)
    /\ rep_pc = "returned" =>
          /\ rep_i = Len(dev_data.rows) + 1
          /\ {pages[k].row : k \in DOMAIN pages}
                = RowsUpTo(Len(dev_data.rows)) \ (MissingRows \cup rep_threw)
          /\ \A j, k \in DOMAIN pages :
                j < k => PosOf(pages[j].row) < PosOf(pages[k].row)
          /\ \A k \in DOMAIN pages : pages[k].plotted
          /\ Logged("ERROR") = rep_threw
          /\ Logged("WARNING") = MissingRows
          /\ Len(rep_log) = Cardinality(rep_threw) + Cardinality(MissingRows)

\* five indicators, the third one throws: pages for the first, second, fourth
\* and fifth, in that order, and an error line for the third
C6_Witness ==
    /\ rep_pc = "returned"
    /\ Len(dev_data.rows) = 5
    /\ rep_threw = {dev_data.rows[3].idx}
    /\ [k \in DOMAIN pages |-> pages[k].row]
          = <<dev_data.rows[1].idx, dev_data.rows[2].idx,
              dev_data.rows[4].idx, dev_data.rows[5].idx>>
    /\ rep_log = <<<<"ERROR", dev_data.rows[3].idx>>>>

\* the years year_cols has a label for
ChartYears ==
    {y \in BaseYear - 2 .. BaseYear + 3 : Str(y) \in SeqToSet(year_cols)}

\* the events of the disaster table whose start year lies within the range of
\* the year columns, in table order
EventsInRange ==
    LET lo == Min(ChartYears)
        hi == Max(ChartYears)
    IN SelectRows(dis_data,
                  [k \in DOMAIN dis_data |->
                      /\ ChartYears # {}
                      /\ lo <= dis_data[k].year
                      /\ dis_data[k].year <= hi])

\* the suffix that goes with an aid flag
AidSuffix(flag) == IF flag = "Yes" THEN " (US Response)" ELSE " (No US Response)"

\* C11: every page of the PDF has one vertical marker for each event of the
\* disaster table whose start year lies within the range of the year columns,
\* at that year, in the order of the disaster table, and no other marker; the
\* label of a marker is the event name alone for PRI and USA, and the event
\* name followed by the suffix of the event's aid flag for any other country.
C11_DisasterMarkers ==
    pages # <<>> =>
        LET expected == EventsInRange IN
        \A p \in DOMAIN pages :
            /\ Len(pages[p].lines) = Len(expected)
            /\ \A k \in DOMAIN pages[p].lines :
                  /\ pages[p].lines[k].x = Str(expected[k].year)
                  /\ pages[p].lines[k].label =
                        IF country_code \in {"PRI", "USA"}
                        THEN expected[k].name
                        ELSE expected[k].name \o AidSuffix(expected[k].ofda)

\* a country other than PRI and USA, one event before the year columns and
\* one with aid in them: the page has the second event's marker only, with
\* the suffix of its flag
C11_Witness ==
    /\ rep_pc = "returned"
    /\ country_code = "PHL"
    /\ Len(dis_data) = 2
    /\ dis_data[1].year < Min(ChartYears)
    /\ dis_data[2].year = Min(ChartYears)
    /\ dis_data[2].ofda = "Yes"
    /\ Len(pages) = 1
    /\ Len(pages[1].lines) = 1
    /\ pages[1].lines[1].x = Str(dis_data[2].year)
    /\ pages[1].lines[1].label = dis_data[2].name \o " (US Response)"

\* the palette has one colour per distinct event name, and on every page each
\* marker after the first has the colour that follows its predecessor's in
\* the cycle
ColoursInTurn ==
    /\ rep_pc \in {"loop", "returned"} =>
          n_storms = Cardinality({dis_data[k].name : k \in DOMAIN dis_data})
    /\ \A p \in DOMAIN pages : \A k \in DOMAIN pages[p].lines :
          k > 1 => pages[p].lines[k].color = (pages[p].lines[k - 1].color + 1) % n_storms

\* C12 as stated: colours are taken in turn from a cycle of as many colours as
\* the disaster table has distinct event names, and two markers drawn one
\* after the other on a page never have the same colour.
C12_ColourDistinctness ==
    /\ ColoursInTurn
    /\ \A p \in DOMAIN pages : \A k \in DOMAIN pages[p].lines :
          k > 1 => pages[p].lines[k].color # pages[p].lines[k - 1].color

----------------------------------------------------------------------------
(* Properties of extract_development_data and of the driver *)

\* the driver is past the fetch stage and still going
PastFetch == main_pc \in {"load", "transform_dev", "transform_dis", "report", "success"}

\* C9 as stated: every batch that raised has its error line and the fetch went
\* on; the returned table holds the indicators of the batches that gave data;
\* with no batch giving data the fetch fails, so that it returns no result and
\* the driver does not go on to the next stage.
C9_FetchFailurePolicy ==
    /\ Len(ext_log) = Len(failed_batches)
    /\ ext_pc = "returned" =>
          /\ ~ext_result.none
          /\ ext_result.indicator_codes = UNION {batch_dfs[k] : k \in DOMAIN batch_dfs}
    /\ PastFetch => ~main_dev.none

IsPrefix(s, t) == Len(s) <= Len(t) /\ \A k \in DOMAIN s : s[k] = t[k]

\* the stages run in the driver's order, each announced by its line; a stage
\* that raised is the last one called and SUCCESS is not printed after it;
\* SUCCESS is printed only after all five stages returned
OrderAndAbort ==
    /\ IsPrefix(stages_run, Stages)
    /\ Len(stdout) >= Len(stages_run)
    /\ \A k \in DOMAIN stages_run : stdout[k] = StageLine(stages_run[k])
    /\ raised_by # "none" =>
          /\ main_pc \in {"except", "done"}
          /\ stages_run # <<>> /\ Last(stages_run) = raised_by
          /\ \A k \in DOMAIN stdout : stdout[k] # SuccessLine
    /\ (main_pc = "done" /\ raised_by # "none") =>
          /\ Len(stdout) = Len(stages_run) + 1
          /\ Last(stdout) = FailureLine
    /\ (\E k \in DOMAIN stdout : stdout[k] = SuccessLine) =>
          /\ stages_run = Stages
          /\ raised_by = "none"
          /\ Last(stdout) = SuccessLine
    /\ (main_pc = "done" /\ raised_by = "none") => Last(stdout) = SuccessLine

\* C10 (as amended): the order and the abort as above, and the driver's handler
\* ends the failure there: after the failure line the script ends normally, no
\* exception leaves it.
C10_DriverOrder ==
    /\ OrderAndAbort
    /\ (main_pc = "done" /\ raised_by # "none") => ~uncaught

\* the fetch returned nothing, the disasters were loaded, the transform raised:
\* three stage lines, then the failure line
C10_Witness ==
    /\ main_pc = "done"
    /\ main_dev.none
    /\ raised_by = "transform_development_data"
    /\ stdout = <<StageLine(Stages[1]), StageLine(Stages[2]), StageLine(Stages[3]),
                  FailureLine>>

\* C10 as stated: the order and the abort as above, and the failure is
\* re-raised, so that an exception leaves the driver.
C10_AsStated ==
    /\ OrderAndAbort
    /\ (main_pc = "done" /\ raised_by # "none") => uncaught

====
